---- MODULE Spec2Model ----
(***************************************************************************)
(* Model of issues_csv_to_github.py: the CSV is validated, loaded into     *)
(* issue_map, merged with the state file of a previous run, linked into a  *)
(* forest, and every root is processed children-first through the gh CLI   *)
(* (issue create, label create, project item-add); issue_map is written    *)
(* to the output CSV after each root.  A first run may be followed by a    *)
(* second run of the same input that resumes from the output CSV.          *)
(***************************************************************************)
EXTENDS Integers, Sequences, FiniteSets, TLC

\* Number of rows of the input CSV; a row is named by its index, which is
\* also the identity of its (unique) title.
MaxRecords == 3
\* Number of gh invocations that may fail over the two runs, not counting
\* the issue creations refused for a label the repository does not have.
MaxFaults == 1
\* Number of rows whose labels cell is filled.
MaxLabelled == 1
\* range(5) of the creation loop.
MaxAttempts == 5

Titles == 1..MaxRecords

VARIABLES
    input,      \* the input CSV: columns and rows
    run,        \* 1: first run, 2: the run that follows it
    stage,      \* position of main()
    issue_map,  \* title -> row dict (github_issue_url, children, body)
    roots,      \* list of root titles
    rootIdx,    \* index in roots of the root being processed
    stack,      \* call stack of process_issue, innermost frame last
    statePath,  \* TRUE iff this run resumes from the output CSV of the last
    nextIssue,  \* number the remote gives to the next created issue
    snapshot,   \* the output CSV file
    faults,     \* gh invocations that have failed so far
    ghost,      \* per title: remote calls made for it in the current run
    returned,   \* titles for which process_issue has returned in this run
    merged,     \* github_issue_url of each title right after state merging
    saved,      \* roots after which this run has written the output CSV
    created     \* per title: successful issue creations over both runs

vars == << input, run, stage, issue_map, roots, rootIdx, stack, statePath,
           nextIssue, snapshot, faults, ghost, returned, merged, saved,
           created >>

----------------------------------------------------------------------------
\* Values of the github_issue_url field.

\* The key is not in the row dict (the CSV has no github_issue_url column).
Absent == [tag |-> "absent", num |-> 0, detail |-> << >>]
\* An empty CSV cell, read by pandas as the float NaN.
NaN == [tag |-> "nan", num |-> 0, detail |-> << >>]
\* "https://github.com/<owner>/<repo>/issues/<n>"
Url(n) == [tag |-> "https", num |-> n, detail |-> << >>]
\* "ERR: <detail>"
Err(d) == [tag |-> "ERR", num |-> 0, detail |-> d]
\* None, the value process_issue returns when no issue was created.
None == [tag |-> "None", num |-> 0, detail |-> << >>]

\* str(x).startswith('https')
StartsWithHttps(s) == s.tag = "https"

\* child_url.split('/')[-1]
IssueNumber(s) == s.num

----------------------------------------------------------------------------
\* The input CSV.

\* A cell of a required text column is "nan" (empty), "blank" (whitespace
\* only) or "text".

\* The parent_title cell: empty, whitespace only, a string that is no title
\* of the file, or the title of row ref.
NoParent == [kind |-> "nan", ref |-> 0]
BlankParent == [kind |-> "blank", ref |-> 0]
DanglingParent == [kind |-> "dangling", ref |-> 0]
ParentOf(r) == [kind |-> "title", ref |-> r]
ParentCells == {NoParent, BlankParent, DanglingParent} \cup {ParentOf(r) : r \in Titles}

\* pd.isna(x) or not x.strip()
IsEmptyCell(c) == c = "nan" \/ c = "blank"

\* The one empty cell of the required text columns, if any.
NoDefect == [row |-> 0, column |-> "none", cell |-> "text"]
DefectChoices ==
    {NoDefect} \cup [row : Titles, column : {"repository", "title"}, cell : {"nan", "blank"}]

CellOf(d, t, c) == IF d.row = t /\ d.column = c THEN d.cell ELSE "text"

\* The sets of rows whose labels cell is filled.
LabelChoices == {L \in SUBSET Titles : Cardinality(L) <= MaxLabelled}

Table(cols, urlCol, parents, d, L) ==
    [ columns |-> cols,
      urlColumn |-> urlCol,
      rows |-> [t \in Titles |-> [repository |-> CellOf(d, t, "repository"),
                                  title |-> CellOf(d, t, "title"),
                                  parent_title |-> parents[t],
                                  labels |-> IF t \in L THEN "text" ELSE "nan"]] ]

Inputs ==
    { Table(TRUE, u, p, d, L) : u \in BOOLEAN, p \in [Titles -> ParentCells],
                                d \in DefectChoices, L \in LabelChoices }
    \cup
    { Table(FALSE, u, p, NoDefect, L) : u \in BOOLEAN, p \in [Titles -> ParentCells],
                                       L \in LabelChoices }

\* validate_dataframe: the list of errors, here as a set.
validate_dataframe(df) ==
    IF ~df.columns
    THEN {[row |-> 0, error |-> "Missing required column"]}
    ELSE {[row |-> t, error |-> "'repository' field cannot be empty."] :
             t \in {r \in Titles : IsEmptyCell(df.rows[r].repository)}}
         \cup
         {[row |-> t, error |-> "'title' field cannot be empty."] :
             t \in {r \in Titles : IsEmptyCell(df.rows[r].title)}}
         \cup
         {[row |-> t, error |-> "'parent_title' does not match any 'title' in the file."] :
             t \in {r \in Titles : df.rows[r].parent_title.kind = "dangling"}}

\* row.to_dict() of one row, as far as the run uses it.
RowDict(df, t) ==
    [ github_issue_url |-> IF df.urlColumn THEN NaN ELSE Absent,
      children |-> << >>,
      body |-> [text |-> t, links |-> << >>] ]

\* issue_map = {row['title']: row.to_dict() ...}
LoadIssueMap(df) == [t \in Titles |-> RowDict(df, t)]

\* The value of issue_map while no run holds one.
NoMap == [t \in Titles |-> [github_issue_url |-> Absent, children |-> << >>,
                            body |-> [text |-> t, links |-> << >>]]]

----------------------------------------------------------------------------
\* Graph building (main, the loop over issue_map.items()).

\* pd.notna(parent_title) and parent_title in issue_map
HasParentInMap(df, t) == df.rows[t].parent_title.kind = "title"

\* One iteration that drops a row whose parent_title names no row instead
\* of making it a root.
LinkRowDropUnmatched(df, g, t) ==
    IF HasParentInMap(df, t)
    THEN LET p == df.rows[t].parent_title.ref
         IN [g EXCEPT !.map[p].children = Append(@, t)]
    ELSE IF df.rows[t].parent_title.kind = "nan"
         THEN [g EXCEPT !.roots = Append(@, t)]
         ELSE g

\* One iteration that puts the row in front of the list instead of behind.
LinkRowPrepend(df, g, t) ==
    IF HasParentInMap(df, t)
    THEN LET p == df.rows[t].parent_title.ref
         IN [g EXCEPT !.map[p].children = << t >> \o @]
    ELSE [g EXCEPT !.roots = << t >> \o @]

\* One iteration that makes a root of every row, also of one appended to
\* its parent's children.
LinkRowAlsoRoot(df, g, t) ==
    IF HasParentInMap(df, t)
    THEN LET p == df.rows[t].parent_title.ref
         IN [g EXCEPT !.map[p].children = Append(@, t), !.roots = Append(@, t)]
    ELSE [g EXCEPT !.roots = Append(@, t)]

\* One iteration of the loop, for row t: append t to its parent's children
\* or to roots.  g is [map, roots].
LinkRow(df, g, t) ==
    IF HasParentInMap(df, t)
    THEN LET p == df.rows[t].parent_title.ref
         IN [g EXCEPT !.map[p].children = Append(@, t)]
    ELSE [g EXCEPT !.roots = Append(@, t)]

RECURSIVE LinkRows(_, _, _)
LinkRows(df, g, t) ==
    IF t > MaxRecords THEN g ELSE LinkRows(df, LinkRow(df, g, t), t + 1)

BuildTree(df, map) == LinkRows(df, [map |-> map, roots |-> << >>], 1)

----------------------------------------------------------------------------
\* The output CSV (DataFrame.from_dict(issue_map).to_csv, pd.read_csv).

\* A file is the set of the titles of its rows, whether it has a
\* github_issue_url column, and the row of each title.
NoFile == [exists |-> FALSE, titles |-> {}, urlColumn |-> FALSE, rows |-> NoMap]

\* A cell as written and read back: a missing key and NaN are both written
\* as an empty cell, which reads as NaN; a string reads as itself.
CsvCell(v) == IF v.tag \in {"absent", "nan"} THEN NaN ELSE v

\* The file has a github_issue_url column iff some row dict has the key.
to_csv(map) ==
    [ exists |-> TRUE,
      titles |-> Titles,
      urlColumn |-> \E t \in Titles : map[t].github_issue_url.tag # "absent",
      rows |-> [t \in Titles |-> [map[t] EXCEPT !.github_issue_url = CsvCell(@)]] ]

\* The merge that gives an empty github_issue_url to the titles the state
\* file does not have (a left join of the input with the state file).
MergeRowsLeftJoin(map, file) ==
    [t \in Titles |->
        [map[t] EXCEPT !.github_issue_url =
            IF t \in file.titles THEN file.rows[t].github_issue_url ELSE NaN]]

\* The merge loop over state_df.iterrows(): every title of the state file
\* that is in issue_map takes the state file's github_issue_url; the other
\* rows of the state file are passed over.
MergeRows(map, file) ==
    [t \in Titles |->
        IF t \in file.titles
        THEN [map[t] EXCEPT !.github_issue_url = file.rows[t].github_issue_url]
        ELSE map[t]]

\* row['github_issue_url'] raises KeyError: the state file has a row whose
\* title is in issue_map and has no github_issue_url column.
MergeRaises(file) == ~file.urlColumn /\ file.titles \cap Titles # {}

----------------------------------------------------------------------------
\* Error messages of gh, as sequences of tokens.

MsgLabelMissing == << "could not add label", ":", "'bug'", "not found" >>
MsgLabelUnquoted == << "could not add label", ":", "bug", "not found" >>
MsgOther == << "HTTP 502" >>
\* What gh issue create may answer for a row: the label errors only when
\* --label is passed, that is when pd.notna(issue_data.get('labels')).
CreateErrors(row) ==
    IF row.labels # "nan" THEN {MsgLabelMissing, MsgLabelUnquoted, MsgOther} ELSE {MsgOther}
StderrLabel == << "HTTP 403" >>
StderrProject == << "HTTP 404" >>

QuotedNames == {"'bug'"}

\* s in error_message
Contains(msg, s) == \E i \in 1..Len(msg) : msg[i] = s

\* "could not add label" in error_message and "not found" in error_message
IsLabelError(msg) == Contains(msg, "could not add label") /\ Contains(msg, "not found")

\* re.search(r"could not add label: '(.*?)' not found", error_message):
\* the positions where the pattern matches.
LabelMatches(msg) ==
    { i \in 1..Len(msg) :
        /\ i + 3 <= Len(msg)
        /\ msg[i] = "could not add label"
        /\ msg[i + 1] = ":"
        /\ msg[i + 2] \in QuotedNames
        /\ msg[i + 3] = "not found" }

\* match.group(1) of the leftmost match
MissingLabel(msg) ==
    LET i == CHOOSE j \in LabelMatches(msg) : \A k \in LabelMatches(msg) : j <= k
    IN msg[i + 2]

ParseFailure == << "Could not parse label name from error." >>
LabelFailure(msg, stderr) == << "Failed to create missing label", MissingLabel(msg), "Reason:" >> \o stderr
ProjectFailure(stderr) == << "Issue created but FAILED to add to project. Reason:" >> \o stderr

----------------------------------------------------------------------------
\* process_issue: frames and the parts of its body.

\* A frame of process_issue(issue_data, issue_map) for the row titled t.
Frame(t) ==
    [ title |-> t, pc |-> "enter", child |-> 0, attempt |-> 0,
      body_with_links |-> [text |-> t, links |-> << >>],
      issue_url |-> None, error_message |-> << >> ]

Top == stack[Len(stack)]
Running == stage = "process" /\ stack # << >>
At(pc) == Running /\ Top.pc = pc

\* The checklist line of one child.
Link(map, c) ==
    IF StartsWithHttps(map[c].github_issue_url)
    THEN [form |-> "#", number |-> IssueNumber(map[c].github_issue_url), title |-> c]
    ELSE [form |-> "(Failed)", number |-> 0, title |-> c]

\* links that lists only the children that were created.
LinksOfCreated(map, kids) ==
    LET ok == SelectSeq(kids, LAMBDA c : StartsWithHttps(map[c].github_issue_url))
    IN [i \in 1..Len(ok) |-> Link(map, ok[i])]

\* links, for the children list kids
Links(map, kids) == [i \in 1..Len(kids) |-> Link(map, kids[i])]

\* child_url.startswith raises AttributeError when child_url is the float NaN.
LinkRaises(map, kids) ==
    \E i \in 1..Len(kids) : map[kids[i]].github_issue_url.tag = "nan"

\* body_with_links after the "if children_titles" block
BodyWithLinks(map, t) ==
    IF map[t].children # << >>
    THEN [map[t].body EXCEPT !.links = @ \o Links(map, map[t].children)]
    ELSE map[t].body

NoGhost ==
    [ create |-> 0, label |-> 0, assoc |-> 0, last |-> "none",
      url |-> Absent, sent |-> {}, entered |-> 0,
      succ |-> 0, assocUrl |-> None, result |-> None ]

\* process_issue returns: the frame is popped; when it was the root's frame
\* main goes on to save the progress.
Return ==
    /\ stack' = SubSeq(stack, 1, Len(stack) - 1)
    /\ returned' = returned \cup {Top.title}
    /\ stage' = IF Len(stack) = 1 THEN "save" ELSE stage

memory == << issue_map, roots, rootIdx, stack >>
remote == << nextIssue, faults, created >>
history == << ghost, returned, merged, saved >>

Urls(map) == [t \in Titles |-> map[t].github_issue_url]

Range(q) == {q[i] : i \in 1..Len(q)}

\* The frame on top of the stack with some of its fields changed.
SetTop(f) == stack' = [stack EXCEPT ![Len(stack)] = f]

\* The assignment that writes to the row of the outermost frame.
SetUrlOfRoot(v) == issue_map' = [issue_map EXCEPT ![stack[1].title].github_issue_url = v]

\* issue_data['github_issue_url'] = v, for the row of the running frame
SetUrl(v) == issue_map' = [issue_map EXCEPT ![Top.title].github_issue_url = v]

----------------------------------------------------------------------------
\* main

Init ==
    /\ input \in Inputs
    /\ run = 1
    /\ stage = "start"
    /\ issue_map = NoMap
    /\ roots = << >>
    /\ rootIdx = 0
    /\ stack = << >>
    /\ statePath = FALSE
    /\ nextIssue = 1
    /\ snapshot = NoFile
    /\ faults = 0
    /\ ghost = [t \in Titles |-> NoGhost]
    /\ returned = {}
    /\ merged = [t \in Titles |-> Absent]
    /\ saved = {}
    /\ created = [t \in Titles |-> 0]

\* main without the sys.exit(1) after the validation errors are printed.
ValidateAndLoadNoExit ==
    /\ stage = "start"
    /\ stage' = "loaded"
    /\ issue_map' = LoadIssueMap(input)
    /\ UNCHANGED << input, run, roots, rootIdx, stack, statePath, snapshot,
                    remote, history >>

\* read_csv, validate_dataframe, sys.exit(1) on errors, else issue_map.
ValidateAndLoad ==
    /\ stage = "start"
    /\ IF validate_dataframe(input) # {}
       THEN /\ stage' = "aborted"
            /\ UNCHANGED issue_map
       ELSE /\ stage' = "loaded"
            /\ issue_map' = LoadIssueMap(input)
    /\ UNCHANGED << input, run, roots, rootIdx, stack, statePath, snapshot,
                    remote, history >>

\* "if state_path:" and the merge loop; row['github_issue_url'] raises
\* KeyError when the state file has no such column.
MergeState ==
    /\ stage = "loaded"
    /\ IF statePath /\ MergeRaises(snapshot)
       THEN /\ stage' = "error"
            /\ UNCHANGED << issue_map, merged >>
       ELSE /\ stage' = "merged"
            /\ issue_map' = IF statePath THEN MergeRows(issue_map, snapshot) ELSE issue_map
            /\ merged' = Urls(issue_map')
    /\ UNCHANGED << input, run, roots, rootIdx, stack, statePath, snapshot,
                    remote, ghost, returned, saved >>

\* The graph built with every record in roots ("for root_data in
\* issue_map.values()").
BuildGraphAllRoots ==
    /\ stage = "merged"
    /\ LET g == BuildTree(input, issue_map)
       IN /\ issue_map' = g.map
          /\ roots' = [t \in Titles |-> t]
    /\ rootIdx' = 1
    /\ stage' = "process"
    /\ UNCHANGED << input, run, stack, statePath, snapshot, remote, history >>

\* The loop that fills children and roots.
BuildGraph ==
    /\ stage = "merged"
    /\ LET g == BuildTree(input, issue_map)
       IN /\ issue_map' = g.map
          /\ roots' = g.roots
    /\ rootIdx' = 1
    /\ stage' = "process"
    /\ UNCHANGED << input, run, stack, statePath, snapshot, remote, history >>

\* for root_data in roots: process_issue(root_data, issue_map)
CallRoot ==
    /\ stage = "process"
    /\ stack = << >>
    /\ rootIdx <= Len(roots)
    /\ stack' = << Frame(roots[rootIdx]) >>
    /\ UNCHANGED << input, run, stage, issue_map, roots, rootIdx, statePath,
                    snapshot, remote, history >>

\* The output CSV written once, after the loop over the roots.
SaveProgressAtEnd ==
    /\ stage = "save"
    /\ snapshot' = IF rootIdx = Len(roots) THEN to_csv(issue_map) ELSE snapshot
    /\ saved' = IF rootIdx = Len(roots) THEN Range(roots) ELSE saved
    /\ rootIdx' = rootIdx + 1
    /\ stage' = "process"
    /\ UNCHANGED << input, run, issue_map, roots, stack, statePath, remote,
                    ghost, returned, merged >>

\* pd.DataFrame.from_dict(issue_map, orient='index').to_csv(output_path)
SaveProgress ==
    /\ stage = "save"
    /\ snapshot' = to_csv(issue_map)
    /\ saved' = saved \cup {roots[rootIdx]}
    /\ rootIdx' = rootIdx + 1
    /\ stage' = "process"
    /\ UNCHANGED << input, run, issue_map, roots, stack, statePath, remote,
                    ghost, returned, merged >>

\* The loop over roots is over: "Process complete."
Finish ==
    /\ stage = "process"
    /\ stack = << >>
    /\ rootIdx > Len(roots)
    /\ stage' = "done"
    /\ UNCHANGED << input, run, memory, statePath, snapshot, remote, history >>

----------------------------------------------------------------------------
\* process_issue

\* The base case compared with == 'https' instead of startswith.
AlreadyProcessedExact(issue_data) ==
    StartsWithHttps(issue_data.github_issue_url) /\ issue_data.github_issue_url.num = 0

\* The base case: an issue whose github_issue_url starts with https is
\* returned at once; otherwise the loop over the children starts.
AlreadyProcessed(issue_data) == StartsWithHttps(issue_data.github_issue_url)

Enter ==
    /\ At("enter")
    /\ IF AlreadyProcessed(issue_map[Top.title])
       THEN /\ Return
            /\ ghost' = [ghost EXCEPT ![Top.title].result =
                                          issue_map[Top.title].github_issue_url]
       ELSE /\ SetTop([Top EXCEPT !.pc = "children", !.child = 1])
            /\ ghost' = [ghost EXCEPT ![Top.title].entered = @ + 1]
            /\ UNCHANGED << stage, returned >>
    /\ UNCHANGED << input, run, issue_map, roots, rootIdx, statePath, snapshot,
                    remote, merged, saved >>

\* for title, child_data in child_issue_map.items(): process_issue(child_data, issue_map)
CallChild ==
    /\ At("children")
    /\ Top.child <= Len(issue_map[Top.title].children)
    /\ stack' = Append([stack EXCEPT ![Len(stack)].child = @ + 1],
                       Frame(issue_map[Top.title].children[Top.child]))
    /\ UNCHANGED << input, run, stage, issue_map, roots, rootIdx, statePath,
                    snapshot, remote, history >>

\* The current issue is processed although children are left to process.
AssembleBodyEarly ==
    /\ At("children")
    /\ SetTop([Top EXCEPT !.pc = "create",
                          !.body_with_links = BodyWithLinks(issue_map, Top.title)])
    /\ UNCHANGED << input, run, stage, issue_map, roots, rootIdx, statePath,
                    snapshot, remote, history >>

\* The assembly that also stores body_with_links as the row's body.
AssembleBodyInPlace ==
    /\ At("children")
    /\ Top.child > Len(issue_map[Top.title].children)
    /\ IF LinkRaises(issue_map, issue_map[Top.title].children)
       THEN /\ stage' = "error"
            /\ UNCHANGED << stack, issue_map >>
       ELSE /\ SetTop([Top EXCEPT !.pc = "create",
                                  !.body_with_links = BodyWithLinks(issue_map, Top.title)])
            /\ issue_map' = [issue_map EXCEPT ![Top.title].body =
                                                BodyWithLinks(issue_map, Top.title)]
            /\ UNCHANGED stage
    /\ UNCHANGED << input, run, roots, rootIdx, statePath, snapshot,
                    remote, history >>

\* "Now, process the current issue": body_with_links is assembled from the
\* children's github_issue_url; an AttributeError ends the run.
AssembleBody ==
    /\ At("children")
    /\ Top.child > Len(issue_map[Top.title].children)
    /\ IF LinkRaises(issue_map, issue_map[Top.title].children)
       THEN /\ stage' = "error"
            /\ UNCHANGED stack
       ELSE /\ SetTop([Top EXCEPT !.pc = "create",
                                  !.body_with_links = BodyWithLinks(issue_map, Top.title)])
            /\ UNCHANGED stage
    /\ UNCHANGED << input, run, issue_map, roots, rootIdx, statePath, snapshot,
                    remote, history >>

\* The iteration without the break after an error that is no label error:
\* the creation is tried again.
CreateItemBlindRetry ==
    /\ At("create")
    /\ LET t == Top.title
           sent == [ghost EXCEPT ![t].create = @ + 1,
                                 ![t].sent = @ \cup {Top.body_with_links}]
       IN \/ \* the issue is created
             /\ SetUrl(Url(nextIssue))
             /\ SetTop([Top EXCEPT !.pc = "associate", !.attempt = @ + 1,
                                   !.issue_url = Url(nextIssue)])
             /\ nextIssue' = nextIssue + 1
             /\ created' = [created EXCEPT ![t] = @ + 1]
             /\ ghost' = [sent EXCEPT ![t].last = "created", ![t].url = Url(nextIssue),
                                  ![t].succ = @ + 1]
             /\ UNCHANGED << stage, returned, faults >>
          \/ \* CalledProcessError
             /\ UNCHANGED << nextIssue, created >>
             /\ \E error_message \in CreateErrors(input.rows[t]) :
                  IF IsLabelError(error_message)
                  THEN IF LabelMatches(error_message) = {}
                       THEN /\ faults < MaxFaults
                            /\ faults' = faults + 1
                            /\ SetUrl(Err(ParseFailure))
                            /\ ghost' = [sent EXCEPT ![t].last = "repair failed", ![t].result = None]
                            /\ Return
                       ELSE /\ SetTop([Top EXCEPT !.pc = "label", !.attempt = @ + 1,
                                                  !.error_message = error_message])
                            /\ ghost' = [sent EXCEPT ![t].last = "label missing"]
                            /\ UNCHANGED << issue_map, stage, returned, faults >>
                  ELSE /\ faults < MaxFaults
                       /\ faults' = faults + 1
                       /\ SetUrl(Err(error_message))
                       /\ ghost' = [sent EXCEPT ![t].last = "fatal", ![t].result = None]
                       /\ IF Top.attempt + 1 < MaxAttempts
                          THEN /\ SetTop([Top EXCEPT !.attempt = @ + 1])
                               /\ UNCHANGED << stage, returned >>
                          ELSE Return
    /\ UNCHANGED << input, run, roots, rootIdx, statePath, snapshot, merged, saved >>

\* One iteration of "for attempt in range(5)": gh issue create and the
\* handling of its result, up to the call of gh label create.
CreateItem ==
    /\ At("create")
    /\ LET t == Top.title
           sent == [ghost EXCEPT ![t].create = @ + 1,
                                 ![t].sent = @ \cup {Top.body_with_links}]
       IN \/ \* the issue is created
             /\ SetUrl(Url(nextIssue))
             /\ SetTop([Top EXCEPT !.pc = "associate", !.attempt = @ + 1,
                                   !.issue_url = Url(nextIssue)])
             /\ nextIssue' = nextIssue + 1
             /\ created' = [created EXCEPT ![t] = @ + 1]
             /\ ghost' = [sent EXCEPT ![t].last = "created", ![t].url = Url(nextIssue),
                                  ![t].succ = @ + 1]
             /\ UNCHANGED << stage, returned, faults >>
          \/ \* CalledProcessError
             /\ UNCHANGED << nextIssue, created >>
             /\ \E error_message \in CreateErrors(input.rows[t]) :
                  IF IsLabelError(error_message)
                  THEN IF LabelMatches(error_message) = {}
                       THEN /\ faults < MaxFaults
                            /\ faults' = faults + 1
                            /\ SetUrl(Err(ParseFailure))
                            /\ ghost' = [sent EXCEPT ![t].last = "repair failed", ![t].result = None]
                            /\ Return
                       ELSE /\ SetTop([Top EXCEPT !.pc = "label", !.attempt = @ + 1,
                                                  !.error_message = error_message])
                            /\ ghost' = [sent EXCEPT ![t].last = "label missing"]
                            /\ UNCHANGED << issue_map, stage, returned, faults >>
                  ELSE /\ faults < MaxFaults
                       /\ faults' = faults + 1
                       /\ SetUrl(Err(error_message))
                       /\ ghost' = [sent EXCEPT ![t].last = "fatal", ![t].result = None]
                       /\ Return
    /\ UNCHANGED << input, run, roots, rootIdx, statePath, snapshot, merged, saved >>

\* create_missing_label whose failure does not break out of the loop.
CreateLabelNoBreak ==
    /\ At("label")
    /\ LET t == Top.title
           called == [ghost EXCEPT ![t].label = @ + 1]
       IN \/ /\ ghost' = [called EXCEPT ![t].last = "repaired", ![t].result = None]
             /\ IF Top.attempt < MaxAttempts
                THEN /\ SetTop([Top EXCEPT !.pc = "create"])
                     /\ UNCHANGED << stage, returned >>
                ELSE Return
             /\ UNCHANGED << issue_map, faults >>
          \/ /\ faults < MaxFaults
             /\ faults' = faults + 1
             /\ SetUrl(Err(LabelFailure(Top.error_message, StderrLabel)))
             /\ ghost' = [called EXCEPT ![t].last = "repair failed", ![t].result = None]
             /\ IF Top.attempt < MaxAttempts
                THEN /\ SetTop([Top EXCEPT !.pc = "create"])
                     /\ UNCHANGED << stage, returned >>
                ELSE Return
    /\ UNCHANGED << input, run, roots, rootIdx, statePath, snapshot, nextIssue,
                    created, merged, saved >>

\* create_missing_label after the match: gh label create; on success the
\* loop goes on, and ends without a result after the last attempt.
CreateLabel ==
    /\ At("label")
    /\ LET t == Top.title
           called == [ghost EXCEPT ![t].label = @ + 1]
       IN \/ /\ ghost' = [called EXCEPT ![t].last = "repaired", ![t].result = None]
             /\ IF Top.attempt < MaxAttempts
                THEN /\ SetTop([Top EXCEPT !.pc = "create"])
                     /\ UNCHANGED << stage, returned >>
                ELSE Return
             /\ UNCHANGED << issue_map, faults >>
          \/ /\ faults < MaxFaults
             /\ faults' = faults + 1
             /\ SetUrl(Err(LabelFailure(Top.error_message, StderrLabel)))
             /\ ghost' = [called EXCEPT ![t].last = "repair failed", ![t].result = None]
             /\ Return
    /\ UNCHANGED << input, run, roots, rootIdx, statePath, snapshot, nextIssue,
                    created, merged, saved >>

\* "Add to project" that returns None when gh project item-add fails.
AssociateReturnsNone ==
    /\ At("associate")
    /\ LET t == Top.title
           called == [ghost EXCEPT ![t].assoc = @ + 1,
                                   ![t].assocUrl = Top.issue_url,
                                   ![t].result = Top.issue_url]
       IN \/ /\ ghost' = called
             /\ UNCHANGED << issue_map, faults >>
          \/ /\ faults < MaxFaults
             /\ faults' = faults + 1
             /\ SetUrl(Err(ProjectFailure(StderrProject)))
             /\ ghost' = [called EXCEPT ![t].last = "not associated", ![t].result = None]
    /\ Return
    /\ UNCHANGED << input, run, roots, rootIdx, statePath, snapshot, nextIssue,
                    created, merged, saved >>

\* "Add to project": gh project item-add; process_issue returns issue_url.
Associate ==
    /\ At("associate")
    /\ LET t == Top.title
           called == [ghost EXCEPT ![t].assoc = @ + 1,
                                   ![t].assocUrl = Top.issue_url,
                                   ![t].result = Top.issue_url]
       IN \/ /\ ghost' = called
             /\ UNCHANGED << issue_map, faults >>
          \/ /\ faults < MaxFaults
             /\ faults' = faults + 1
             /\ SetUrl(Err(ProjectFailure(StderrProject)))
             /\ ghost' = [called EXCEPT ![t].last = "not associated"]
    /\ Return
    /\ UNCHANGED << input, run, roots, rootIdx, statePath, snapshot, nextIssue,
                    created, merged, saved >>

----------------------------------------------------------------------------
\* The process is terminated, and the program is run again.

\* The process is killed while it works; its memory is gone.
Interrupt ==
    /\ run = 1
    /\ stage \in {"loaded", "merged", "process", "save"}
    /\ stage' = "killed"
    /\ issue_map' = NoMap
    /\ roots' = << >>
    /\ rootIdx' = 0
    /\ stack' = << >>
    /\ ghost' = [t \in Titles |-> NoGhost]
    /\ returned' = {}
    /\ merged' = [t \in Titles |-> Absent]
    /\ saved' = {}
    /\ UNCHANGED << input, run, statePath, snapshot, remote >>

\* get_and_validate_paths of the next run: when the output CSV exists the
\* run resumes from it (the default answer to the prompt).
StartNextRun ==
    /\ run = 1
    /\ stage \in {"done", "killed", "error"}
    /\ run' = 2
    /\ stage' = "start"
    /\ statePath' = snapshot.exists
    /\ issue_map' = NoMap
    /\ roots' = << >>
    /\ rootIdx' = 0
    /\ stack' = << >>
    /\ ghost' = [t \in Titles |-> NoGhost]
    /\ returned' = {}
    /\ merged' = [t \in Titles |-> Absent]
    /\ saved' = {}
    /\ UNCHANGED << input, snapshot, remote >>

Next ==
    \/ ValidateAndLoad
    \/ MergeState
    \/ BuildGraph
    \/ CallRoot
    \/ SaveProgress
    \/ Finish
    \/ Enter
    \/ CallChild
    \/ AssembleBody
    \/ CreateItem
    \/ CreateLabel
    \/ Associate
    \/ Interrupt
    \/ StartNextRun

Spec == Init /\ [][Next]_vars

----------------------------------------------------------------------------
\* The state merge alone, on state files of any earlier input: the file may
\* lack rows of the input and have rows the input does not have.

\* A title that only a state file has.
ExtraTitle == MaxRecords + 1

FileUrls == {NaN, Url(1), Err(MsgOther)}

StateFile(T, urlCol, urls) ==
    [ exists |-> TRUE,
      titles |-> T,
      urlColumn |-> urlCol,
      rows |-> [t \in T |-> [github_issue_url |-> IF urlCol THEN urls[t] ELSE Absent,
                             children |-> << t >>,
                             body |-> [text |-> t, links |-> << >>]]] ]

StateFiles ==
    UNION { {StateFile(T, TRUE, urls) : urls \in [T -> FileUrls]}
            \cup {StateFile(T, FALSE, [t \in T |-> Absent])} :
            T \in SUBSET (Titles \cup {ExtraTitle}) }

InitMerge ==
    /\ input \in {Table(TRUE, u, [t \in Titles |-> NoParent], NoDefect, {}) : u \in BOOLEAN}
    /\ run = 2
    /\ stage = "loaded"
    /\ issue_map = LoadIssueMap(input)
    /\ roots = << >>
    /\ rootIdx = 0
    /\ stack = << >>
    /\ statePath = TRUE
    /\ nextIssue = 1
    /\ snapshot \in StateFiles
    /\ faults = 0
    /\ ghost = [t \in Titles |-> NoGhost]
    /\ returned = {}
    /\ merged = [t \in Titles |-> Absent]
    /\ saved = {}
    /\ created = [t \in Titles |-> 0]

NextMerge == MergeState

SpecMerge == InitMerge /\ [][NextMerge]_vars

----------------------------------------------------------------------------
\* Notions the properties are stated in.

\* The rows whose parent_title is the title of a row of S.
ChildSet(S) ==
    {c \in Titles : /\ input.rows[c].parent_title.kind = "title"
                    /\ input.rows[c].parent_title.ref \in S}

RECURSIVE Closure(_, _)
Closure(S, n) == IF n = 0 THEN S ELSE Closure(S \cup ChildSet(S), n - 1)

\* The descendants of t, transitively.
Descendants(t) == Closure(ChildSet({t}), MaxRecords)

\* The current run has merged the output CSV of the run before it.
Resumed == run = 2 /\ statePath /\ stage \notin {"start", "loaded"}

NoCalls(t) == ghost[t].create = 0 /\ ghost[t].label = 0 /\ ghost[t].assoc = 0

----------------------------------------------------------------------------
\* C1: in a run that resumes from the output of the run before it, a record
\* whose merged github_issue_url is an issue URL gets no gh issue create,
\* no gh label create and no gh project item-add, and keeps that URL.
C1_ResumeIdempotent ==
    Resumed =>
        \A t \in Titles :
            StartsWithHttps(merged[t]) =>
                /\ NoCalls(t)
                /\ issue_map[t].github_issue_url = merged[t]

\* A resumed run is over; it skipped a created record it was called on and
\* created another one.
C1_Witness ==
    /\ Resumed
    /\ stage = "done"
    /\ \E t \in returned : StartsWithHttps(merged[t])
    /\ \E t \in Titles : ghost[t].create > 0

\* C2 as stated: over a run, interrupted or not, and the run that resumes
\* from its output, no title has more than one successful issue creation.
C2_NoDuplicateCreate ==
    Resumed => \A t \in Titles : created[t] <= 1

\* C2, amended: a title that the merged output records with an issue URL
\* has at most one successful issue creation over the two runs.
C2_NoDuplicateOfSaved ==
    Resumed =>
        \A t \in Titles : StartsWithHttps(merged[t]) => created[t] <= 1

\* A resumed run is over; one title recorded with its URL was created once,
\* another title, not recorded so, was created in both runs.
C2_Witness ==
    /\ Resumed
    /\ stage = "done"
    /\ \E t \in Titles : StartsWithHttps(merged[t]) /\ created[t] = 1
    /\ \E t \in Titles : ~StartsWithHttps(merged[t]) /\ created[t] = 2

----------------------------------------------------------------------------
\* C3 as stated: when gh issue create has been called for a record in a
\* run, process_issue has returned in that run for every one of its
\* descendants.
C3_DescendantsReturned ==
    \A t \in Titles : ghost[t].create > 0 => Descendants(t) \subseteq returned

\* C3, amended: when gh issue create has been called for a record in a
\* run, process_issue has returned for every one of its children, and from
\* then on no gh issue create is called for any of its descendants in that
\* run (a descendant below an already created child is not processed).
C3_PostOrder ==
    /\ [](\A t \in Titles :
            ghost[t].create > 0 => Range(issue_map[t].children) \subseteq returned)
    /\ [][\A t \in Titles : \A d \in Descendants(t) :
            ghost[t].create > 0 => ghost'[d].create <= ghost[d].create]_vars

\* A record, one of its children and a child of that child have all had
\* gh issue create called in one run.
C3_Witness ==
    \E t, c, d \in Titles :
        /\ c \in Range(issue_map[t].children)
        /\ d \in Range(issue_map[c].children)
        /\ ghost[t].create > 0 /\ ghost[c].create > 0 /\ ghost[d].create > 0

\* The remediation details create_missing_label can return.
RemediationDetails == {ParseFailure, LabelFailure(MsgLabelMissing, StderrLabel)}

\* C4: a process_issue call makes at most 5 gh issue create calls; once
\* the label repair has failed the record is ERR with the remediation
\* detail, process_issue has returned, and no further create is made.
C4_RetryBound ==
    /\ [](/\ \A i \in 1..Len(stack) : stack[i].attempt <= MaxAttempts
          /\ \A t \in Titles :
                /\ ghost[t].create <= MaxAttempts
                /\ ghost[t].last = "repair failed" =>
                      /\ t \in returned
                      /\ issue_map[t].github_issue_url.tag = "ERR"
                      /\ issue_map[t].github_issue_url.detail \in RemediationDetails)
    /\ [][\A t \in Titles :
            ghost[t].last = "repair failed" => ghost'[t].create <= ghost[t].create]_vars

\* The repair of the label failed after the second failed creation, and the
\* run went on to its end.
C4_Witness ==
    /\ stage = "done"
    /\ \E t \in Titles :
          /\ ghost[t].last = "repair failed"
          /\ ghost[t].create = 2
          /\ ghost[t].label = 2

\* All 5 creations of t failed for a missing label that was then created.
Exhausted(t) ==
    /\ t \in returned
    /\ ghost[t].create = MaxAttempts
    /\ ghost[t].label = MaxAttempts
    /\ ghost[t].last = "repaired"

\* C5: after 5 failed creations, each repaired, the record is ERR with the
\* error of the last attempt.
C5_ExhaustedIsFailed ==
    \A t \in Titles :
        Exhausted(t) =>
            /\ issue_map[t].github_issue_url.tag = "ERR"
            /\ issue_map[t].github_issue_url.detail = MsgLabelMissing

----------------------------------------------------------------------------
\* The checklist line "- [ ] #<n> <title>" and the line "- [ ] (Failed) <title>".
CreatedLine(n, c) == [form |-> "#", number |-> n, title |-> c]
FailedLine(c) == [form |-> "(Failed)", number |-> 0, title |-> c]

\* C6: when a child was created with URL u and its gh project item-add
\* failed, its line in every body sent for its parent is "#<number of u>".
C6_NotAssociatedStillLinked ==
    \A p \in Titles : \A b \in ghost[p].sent :
        \A i \in 1..Len(issue_map[p].children) :
            LET c == issue_map[p].children[i]
            IN ghost[c].last = "not associated" =>
                   /\ i <= Len(b.links)
                   /\ b.links[i] = CreatedLine(IssueNumber(ghost[c].url), c)

\* The rows whose parent_title is the title of row p, in row order.
RECURSIVE RowsUnder(_, _)
RowsUnder(p, t) ==
    IF t > MaxRecords THEN << >>
    ELSE (IF input.rows[t].parent_title = ParentOf(p) THEN << t >> ELSE << >>)
         \o RowsUnder(p, t + 1)

\* C7: every body sent to gh issue create for a record is its own body
\* followed by one line per child, in row order; the line of a child is
\* the "#<number>" line iff the child's github_issue_url is an issue URL,
\* and the "(Failed)" line otherwise; every attempt sends the same body.
C7_ChecklistComplete ==
    \A p \in Titles : \A b \in ghost[p].sent :
        /\ Cardinality(ghost[p].sent) = 1
        /\ b.text = p
        /\ Len(b.links) = Len(RowsUnder(p, 1))
        /\ \A i \in 1..Len(b.links) :
              LET c == RowsUnder(p, 1)[i]
                  u == issue_map[c].github_issue_url
              IN /\ c \in returned
                 /\ u.tag = "https" => b.links[i] = CreatedLine(u.num, c)
                 /\ u.tag # "https" => b.links[i] = FailedLine(c)

\* A body was sent for a parent of two children, one created and one not.
C7_Witness ==
    \E p \in Titles : \E b \in ghost[p].sent :
        /\ Len(b.links) = 2
        /\ b.links[1].form = "(Failed)"
        /\ b.links[2].form = "#"
        /\ ghost[p].create >= 1

----------------------------------------------------------------------------
\* A gh invocation made for t in this run failed, and t was not created.
CreationFailed(t) ==
    /\ t \in returned
    /\ ghost[t].create > 0
    /\ ghost[t].last \in {"fatal", "repair failed", "repaired"}

\* C8: whatever gh invocations fail, the run is not ended by an exception,
\* a finished run has processed every root and written the output CSV
\* after each, a record whose child failed still has its own gh issue
\* create, and every failure is recorded as ERR in github_issue_url.
C8_FailureIsolation ==
    /\ stage # "error"
    /\ stage = "done" => /\ Range(roots) \subseteq returned
                         /\ Range(roots) \subseteq saved
    /\ \A t \in Titles :
          /\ CreationFailed(t) => issue_map[t].github_issue_url.tag = "ERR"
          /\ ghost[t].last = "not associated" => issue_map[t].github_issue_url.tag = "ERR"
          /\ \A p \in Titles :
                (CreationFailed(t) /\ t \in Range(issue_map[p].children) /\ p \in returned)
                    => ghost[p].create > 0

----------------------------------------------------------------------------
\* The rows whose parent_title is filled and is the title of no row.
Unmatched == {t \in Titles : input.rows[t].parent_title.kind \in {"blank", "dangling"}}

\* C9 as stated: a run of the program makes every row whose parent_title is
\* filled but names no row a root, and calls gh issue create for it.
C9_UnmatchedIsRoot ==
    (run = 1 /\ stage \in {"aborted", "done"}) =>
        \A t \in Unmatched : t \in Range(roots) /\ ghost[t].create > 0

\* C9, amended: a parent_title that names no row and is more than
\* whitespace fails the validation, and the run ends with no root; in a run
\* that passes the validation a row whose parent_title is filled (with
\* whitespace) and names no row is a root, and when the run is over it has
\* been processed: gh issue create was called for it unless the merged
\* state had its issue URL.
C9_BlankParentIsRoot ==
    /\ (\E t \in Titles : input.rows[t].parent_title.kind = "dangling")
          => (stage \in {"start", "aborted"} /\ roots = << >>)
    /\ stage \in {"process", "save", "done"} => Unmatched \subseteq Range(roots)
    /\ stage = "done" =>
          \A t \in Unmatched :
              /\ t \in returned
              /\ ghost[t].create > 0 \/ StartsWithHttps(merged[t])

\* A run is over in which a row with a whitespace parent_title was a root
\* and had gh issue create called.
C9_Witness ==
    /\ stage = "done"
    /\ \E t \in Titles :
          /\ input.rows[t].parent_title.kind = "blank"
          /\ t \in Range(roots)
          /\ ghost[t].create > 0

----------------------------------------------------------------------------
\* C10: when the validation reports an error the run ends before anything
\* is done: no gh issue create, gh label create or gh project item-add is
\* called and the output CSV is not written.
C10_ValidationAborts ==
    (validate_dataframe(input) # {} /\ stage # "start") =>
        /\ stage = "aborted"
        /\ \A t \in Titles : NoCalls(t) /\ created[t] = 0
        /\ nextIssue = 1
        /\ saved = {}
        /\ snapshot = NoFile

\* A run was ended by the validation for an empty repository cell.
C10_Witness ==
    /\ stage = "aborted"
    /\ \E t \in Titles : IsEmptyCell(input.rows[t].repository)

----------------------------------------------------------------------------
\* The roots for which process_issue has returned and main has gone on.
CompletedRoots == {roots[i] : i \in 1..(rootIdx - 1)}

\* A row dict as the output CSV holds it: an unset github_issue_url is an
\* empty cell, every other value is kept.
Persisted(row) ==
    [ github_issue_url |-> IF row.github_issue_url.tag \in {"absent", "nan"}
                           THEN NaN ELSE row.github_issue_url,
      children |-> row.children,
      body |-> row.body ]

\* C11: the step after process_issue returns for a root writes every row of
\* issue_map to the output CSV; from then on the output CSV holds the
\* github_issue_url, children and body of every record of the subtrees of
\* the completed roots, and the end of the process by a kill or an
\* exception leaves the output CSV as it is.
C11_SnapshotDurable ==
    /\ [](stage \in {"process", "save", "done", "error"} =>
            \A r \in CompletedRoots :
                /\ snapshot.exists
                /\ \A t \in {r} \cup Descendants(r) :
                      snapshot.rows[t] = Persisted(issue_map[t]))
    /\ [][(stage = "save" /\ stage' = "process") =>
            /\ snapshot'.exists
            /\ snapshot'.titles = Titles
            /\ \A t \in Titles : snapshot'.rows[t] = Persisted(issue_map[t])]_vars
    /\ [][stage' \in {"killed", "error"} => snapshot' = snapshot]_vars

\* The process was killed while a later root was in progress, after an
\* issue was created under that root: the output CSV holds the URL of an
\* issue of a completed root and not that of the later issue.
C11_Witness ==
    /\ stage = "killed"
    /\ snapshot.exists
    /\ \E t \in Titles : StartsWithHttps(snapshot.rows[t].github_issue_url)
    /\ \E t \in Titles : created[t] = 1 /\ snapshot.rows[t].github_issue_url = NaN

----------------------------------------------------------------------------
\* C12: after the merge a record whose title the state file has holds the
\* state file's github_issue_url, a record whose title it does not have
\* holds the loaded one, the titles only the state file has add no record,
\* and children and body are as loaded.
C12_MergeOverlay ==
    stage = "merged" =>
        /\ DOMAIN issue_map = Titles
        /\ \A t \in Titles :
              /\ t \in snapshot.titles =>
                    issue_map[t].github_issue_url = snapshot.rows[t].github_issue_url
              /\ t \notin snapshot.titles =>
                    issue_map[t].github_issue_url = (IF input.urlColumn THEN NaN ELSE Absent)
              /\ issue_map[t].children = << >>
              /\ issue_map[t].body = [text |-> t, links |-> << >>]

\* A state file with a title of its own, without one of the input's titles
\* and with an issue URL for another was merged into an input that has no
\* github_issue_url column.
C12_Witness ==
    /\ stage = "merged"
    /\ ExtraTitle \in snapshot.titles
    /\ ~input.urlColumn
    /\ \E t \in Titles \cap snapshot.titles : StartsWithHttps(issue_map[t].github_issue_url)
    /\ \E t \in Titles \ snapshot.titles : issue_map[t].github_issue_url = Absent

----------------------------------------------------------------------------
\* The list q is in row order, without duplicates.
InRowOrder(q) == \A i, j \in 1..Len(q) : i < j => q[i] < q[j]

\* C13: once the graph is built every record is either in roots and in no
\* children list, or in the children list of the record its parent_title
\* names and of no other and not in roots; it is the latter iff its
\* parent_title names a record; all the lists are in row order.
C13_GraphPartition ==
    stage \in {"process", "save", "done"} =>
        /\ InRowOrder(roots)
        /\ \A q \in Titles : InRowOrder(issue_map[q].children)
        /\ \A t \in Titles :
              LET p == input.rows[t].parent_title
              IN IF p.kind = "title"
                 THEN /\ t \notin Range(roots)
                      /\ \A q \in Titles :
                            t \in Range(issue_map[q].children) <=> q = p.ref
                 ELSE /\ t \in Range(roots)
                      /\ \A q \in Titles : t \notin Range(issue_map[q].children)

\* The graph is built for a root with two children.
C13_Witness ==
    /\ stage = "process"
    /\ \E q \in Range(roots) : Len(issue_map[q].children) = 2

----------------------------------------------------------------------------
\* The last gh issue create for t failed with an error that is no label
\* error, or with a label error the label name could not be parsed from.
NotRemediable(t) ==
    \/ ghost[t].last = "fatal"
    \/ /\ ghost[t].last = "repair failed"
       /\ issue_map[t].github_issue_url.detail = ParseFailure

\* C14: after such a failure the record is ERR with the error message (or
\* the message that the label could not be parsed), process_issue has
\* returned, gh label create was called for the earlier failed creations
\* only, and no further gh issue create is called for the record.
C14_NoBlindRetry ==
    /\ [](\A t \in Titles :
            NotRemediable(t) =>
                /\ t \in returned
                /\ ghost[t].label = ghost[t].create - 1
                /\ ghost[t].succ = 0
                /\ ghost[t].last = "fatal" =>
                      issue_map[t].github_issue_url = Err(MsgOther)
                /\ ghost[t].last = "repair failed" =>
                      issue_map[t].github_issue_url = Err(ParseFailure))
    /\ [][\A t \in Titles :
            NotRemediable(t) => /\ ghost'[t].create <= ghost[t].create
                                /\ ghost'[t].label <= ghost[t].label]_vars

\* The second creation of a record failed with an error that is no label
\* error, after the label missing at the first was created; the run went on
\* to its end.
C14_Witness ==
    /\ stage = "done"
    /\ \E t \in Titles :
          /\ ghost[t].last = "fatal"
          /\ ghost[t].create = 2
          /\ ghost[t].label = 1

----------------------------------------------------------------------------
\* The records on a cycle of parent_title references.
OnCycle == {t \in Titles : t \in Descendants(t)}

\* The records on a cycle or below one.
CycleBound == OnCycle \cup UNION {Descendants(t) : t \in OnCycle}

\* C15 as stated: a run on records whose parent_title references have a
\* cycle does not come to its end.
C15_CyclicNeverDone ==
    OnCycle # {} => stage # "done"

\* C15, amended: no record on a cycle of parent_title references or below
\* one is a root or the child of a record outside; process_issue is never
\* called for it and no gh call is made for it; the recursion is never
\* deeper than the number of records.
C15_CycleSkipped ==
    /\ Len(stack) <= MaxRecords
    /\ \A i, j \in 1..Len(stack) : i # j => stack[i].title # stack[j].title
    /\ \A t \in CycleBound :
          /\ t \notin Range(roots)
          /\ \A i \in 1..Len(stack) : stack[i].title # t
          /\ t \notin returned
          /\ ghost[t].entered = 0
          /\ NoCalls(t)
          /\ issue_map[t].github_issue_url.tag \in {"absent", "nan"}

\* A run came to its end on an input in which two records name each other
\* as parent; an issue was created for the third.
C15_Witness ==
    /\ stage = "done"
    /\ \E t, u \in OnCycle : t # u
    /\ \E t \in Titles \ CycleBound : ghost[t].succ = 1

----------------------------------------------------------------------------
\* C16: gh project item-add is called for a record at most once in a run,
\* only after its issue was created in the same process_issue call, and
\* with the URL that creation returned; when it fails the record's
\* github_issue_url is the created-but-not-added ERR text and process_issue
\* still returns the URL; when no issue was created it is not called and
\* process_issue returns None.
C16_Association ==
    \A t \in Titles :
        /\ ghost[t].assoc <= 1
        /\ ghost[t].assoc = 1 =>
              /\ ghost[t].entered = 1
              /\ ghost[t].succ = 1
              /\ StartsWithHttps(ghost[t].url)
              /\ ghost[t].assocUrl = ghost[t].url
              /\ t \in returned
              /\ ghost[t].result = ghost[t].url
        /\ ghost[t].last = "not associated" =>
              /\ ghost[t].assoc = 1
              /\ issue_map[t].github_issue_url = Err(ProjectFailure(StderrProject))
        /\ (ghost[t].assoc = 1 /\ ghost[t].last # "not associated") =>
              issue_map[t].github_issue_url = ghost[t].url
        /\ (t \in returned /\ ghost[t].entered = 1 /\ ghost[t].succ = 0) =>
              /\ ghost[t].assoc = 0
              /\ ghost[t].result = None

\* A run is over in which one issue was created and not added to the
\* project, and for another record all creations failed.
C16_Witness ==
    /\ stage = "done"
    /\ \E t \in returned : ghost[t].last = "not associated"
    /\ \E t \in returned : ghost[t].entered = 1 /\ ghost[t].succ = 0

----------------------------------------------------------------------------
\* The body of the row titled t as it was loaded from the input.
LoadedBody(t) == [text |-> t, links |-> << >>]

\* C17 as stated: after process_issue has returned for a record that was
\* not already created and has children, the record's body has one
\* checklist line per child appended; for every other returned record the
\* body is as loaded.
C17_RecordBodyAugmented ==
    \A t \in returned :
        IF ghost[t].entered = 1 /\ issue_map[t].children # << >>
        THEN Len(issue_map[t].body.links) = Len(issue_map[t].children)
        ELSE issue_map[t].body = LoadedBody(t)

\* C17: the checklist is appended to the local body_with_links only: every
\* body sent to gh issue create for a record with children carries one
\* checklist line per child, while the record's body, in issue_map and in
\* the output CSV, is as loaded at every point of the run.
C17_RecordBodyKept ==
    \A t \in Titles :
        /\ issue_map[t].body = LoadedBody(t)
        /\ snapshot.exists => snapshot.rows[t].body = LoadedBody(t)
        /\ \A b \in ghost[t].sent :
              /\ b.text = t
              /\ Len(b.links) = Len(issue_map[t].children)

\* A run is over in which a body with checklist lines was sent for a record
\* with children, and the output CSV holds that record's body as loaded.
C17_Witness ==
    /\ stage = "done"
    /\ snapshot.exists
    /\ \E t \in returned :
          /\ ghost[t].entered = 1
          /\ issue_map[t].children # << >>
          /\ \E b \in ghost[t].sent : b.links # << >>
          /\ snapshot.rows[t].body = LoadedBody(t)

----------------------------------------------------------------------------
\* C18 as stated: when a run is over, gh issue create was called in that
\* run for every record whose github_issue_url after the merge of the
\* state file was not an issue URL.
C18_ResumeCoversAll ==
    stage = "done" =>
        \A t \in Titles :
            ~StartsWithHttps(merged[t]) => ghost[t].create > 0

\* The same for the records whose parent was already created: a resumed
\* run that is over has called gh issue create for every child that was
\* not created of a parent that was.
C18_ChildOfCreatedRetried ==
    (stage = "done" /\ run = 2) =>
        \A t \in Titles :
            (/\ ~StartsWithHttps(merged[t])
             /\ \E r \in Titles : /\ t \in Range(issue_map[r].children)
                                   /\ StartsWithHttps(merged[r]))
            => ghost[t].create > 0

----------------------------------------------------------------------------
\* C19: in one run every title passes the check of process_issue for an
\* already created issue at most once, so that it has at most one
\* successful gh issue create and at most 5 gh issue create calls in the
\* run, and none when it did not pass the check.
C19_OncePerRun ==
    \A t \in Titles :
        /\ ghost[t].entered <= 1
        /\ ghost[t].succ <= 1
        /\ ghost[t].create <= MaxAttempts * ghost[t].entered
        /\ Cardinality({i \in 1..Len(stack) : stack[i].title = t}) <= 1

\* A run is over in which every title passed the check, one had 5 gh issue
\* create calls and another a successful one.
C19_Witness ==
    /\ stage = "done"
    /\ \A t \in Titles : ghost[t].entered = 1
    /\ \E t \in Titles : ghost[t].create = MaxAttempts
    /\ \E t \in Titles : ghost[t].succ = 1

----------------------------------------------------------------------------
\* A step of the processing of the roots (no load, no merge, no kill).
ProcessingStep ==
    /\ stage \in {"process", "save"}
    /\ stage' \in {"process", "save", "done", "error"}

\* The github_issue_url of the row titled t is changed by the step.
Written(t) == issue_map'[t].github_issue_url # issue_map[t].github_issue_url

\* C20: while the roots are processed, a record's github_issue_url is
\* written only by the creation loop or the project step of the
\* process_issue call of that record, the innermost running one; every
\* step made for another record leaves it as it is, and once process_issue
\* has returned for a record its github_issue_url is not written again in
\* the run.
C20_StatusWriteLocal ==
    /\ [][ProcessingStep =>
            \A t \in Titles :
                Written(t) => /\ Running
                              /\ Top.title = t
                              /\ Top.pc \in {"create", "label", "associate"}]_vars
    /\ [][ProcessingStep => \A t \in returned : ~Written(t)]_vars

\* The github_issue_url of a record is set by its own call while
\* process_issue has returned for one of its children with a
\* github_issue_url set in that child's call and still in place.
C20_Witness ==
    /\ Running
    /\ Top.pc = "associate"
    /\ StartsWithHttps(issue_map[Top.title].github_issue_url)
    /\ \E c \in Range(issue_map[Top.title].children) :
          /\ c \in returned
          /\ ghost[c].create > 0
          /\ issue_map[c].github_issue_url.tag \in {"https", "ERR"}
          /\ issue_map[c].github_issue_url # issue_map[Top.title].github_issue_url

====
